---- MODULE Spec2Model ----
(***************************************************************************)
(* A model of rax-test.c: the chaining hash table used as the reference    *)
(* ("Oracle") for the radix tree, the key generators, the fuzz run         *)
(* fuzzTest() and the driver main().                                       *)
(*                                                                         *)
(* Keys are sequences of bytes (0..255).  A bucket chain is the sequence   *)
(* of its nodes from the head on; the link number j of a chain is the      *)
(* pointer that points at node j+1 (link 0 is table[h], link j is the      *)
(* next field of node j).                                                  *)
(***************************************************************************)
EXTENDS Integers, Sequences, FiniteSets, TLC

\* ------------------------------------------------------------------------
\* Program constants
\* ------------------------------------------------------------------------

HT_TABLE_SIZE == 100000

KEY_INT == 0

KEY_UNIQUE_ALPHA == 1

KEY_RANDOM == 2

\* sizeof(key) in fuzzTest
KeyBufSize == 64

\* void *htNotFound = (void*)"ht-not-found": the address of a string literal,
\* here the one of a program linked at 0x400000; an address of the program's
\* read-only data is no integer below HT_TABLE_SIZE.
htNotFound == 4202496

\* ------------------------------------------------------------------------
\* Bounds of the model
\* ------------------------------------------------------------------------

\* How many bucket heads of a fresh table may hold something else than NULL
\* (htNew leaves them all uninitialized).
MaxDirty == 1

\* The longest chain an uninitialized head may lead to.
MaxGarbageLen == 2

\* Cap of the element counter (htRem never decrements it).
MaxNumele == 3

\* The iterations of the insertion loop of fuzzTest, which are 1000000 in
\* the program.
FuzzIters == 3

\* Cap of the keys the iterator of the index yields in one traversal.
MaxYield == 4

\* The longest command line (without the program name).
MaxArgs == 2

\* int2key() on its own is called with the indices 0..MaxIndexLow, and with
\* the indices EdgeIndices.
MaxIndexLow == 24

\* ------------------------------------------------------------------------
\* uint32_t arithmetic, on 16 bit halves <<hi, lo>>
\* ------------------------------------------------------------------------

W16 == 65536

\* hash * 31 + c, modulo 2^32
MulAdd31(h, c) ==
    LET lo == h[2] * 31 + c
        hi == h[1] * 31 + (lo \div W16)
    IN  <<hi % W16, lo % W16>>

\* hash * 33 + c, modulo 2^32
MulAdd33(h, c) ==
    LET lo == h[2] * 33 + c
        hi == h[1] * 33 + (lo \div W16)
    IN  <<hi % W16, lo % W16>>

\* a uint32_t modulo m (m <= 2^20)
Mod32(h, m) ==
    (((((h[1] * 256) % m) * 256) % m) + h[2]) % m

\* The iterations i..len of the loop of htHash, from hash on: one iteration,
\* or those of the first half followed by those of the second half, so that
\* a key of 63 bytes is evaluated 6 levels deep.  The test of h[1], which is
\* never negative, has h evaluated before the second half.
RECURSIVE djb2(_, _, _, _)
djb2(hash, s, i, len) ==
    IF i > len THEN hash
    ELSE IF i = len THEN MulAdd33(hash, s[i])
    ELSE LET m == (i + len) \div 2
             h == djb2(hash, s, i, m)
         IN  IF h[1] >= 0 THEN djb2(h, s, m + 1, len) ELSE h

\* uint32_t htHash(unsigned char *s, size_t len): 5381 = 0 * 65536 + 5381
htHash(s, len) == Mod32(djb2(<<0, 5381>>, s, 1, len), HT_TABLE_SIZE)

\* ------------------------------------------------------------------------
\* Key generation: int2int, int2alphakey, int2key
\* ------------------------------------------------------------------------

\* a ^ b on the low n bits (n > 0): one bit, or the high bits and the low
\* bits apart.
RECURSIVE XorBits(_, _, _)
XorBits(a, b, n) ==
    IF n = 1 THEN (a + b) % 2
    ELSE LET h == n \div 2
             p == 2 ^ h
         IN  XorBits(a \div p, b \div p, n - h) * p + XorBits(a % p, b % p, h)

\* uint16_t F = (((r * 31) + (r >> 5) + 7 * 371) ^ r) & 0xffff, computed in
\* int: the sum is below 2^22.
FeistelF(r) == XorBits(r * 31 + (r \div 32) + 7 * 371, r, 22) % W16

\* A round that forgets l: r = F.
FeistelRoundNoXor(rl) == <<FeistelF(rl[1]), rl[1]>>

\* One round: nl = r; r = l ^ F; l = nl.  The state is <<r, l>>.
FeistelRound(rl) == <<XorBits(rl[2], FeistelF(rl[1]), 16), rl[1]>>

\* The n rounds of the loop.  The test of rl2[1], which is never negative,
\* has the round evaluated before the next one starts.
RECURSIVE FeistelRounds(_, _)
FeistelRounds(rl, n) ==
    IF n = 0 THEN rl
    ELSE LET rl2 == FeistelRound(rl)
         IN  IF rl2[1] >= 0 THEN FeistelRounds(rl2, n - 1) ELSE rl2

\* static uint32_t int2int(uint32_t input), on halves <<hi, lo>>: l is the low
\* half of the input, r the high one; the result is (r<<16)|l with the bits
\* of r above 15 gone (r is promoted to int; the compilers the test is built
\* with shift it as an unsigned value).
int2int(input) == FeistelRounds(<<input[1], input[2]>>, 8)

\* The uint32_t an int i >= 0 converts to (the argument i of int2key, line
\* 221).
U32(i) == <<i \div W16, i % W16>>

\* i % 62 and i / 62 of a uint32_t
Mod62(x) == ((x[1] % 62) * W16 + x[2]) % 62

Div62(x) == <<x[1] \div 62, ((x[1] % 62) * W16 + x[2]) \div 62>>

\* "ABC...Zabc...z012...9"[d] as a byte
AlphaSet(d) == IF d < 26 THEN 65 + d ELSE IF d < 52 THEN 97 + (d - 26) ELSE 48 + (d - 52)

\* The loop of int2alphakey: s[len++] = set[i%setlen]; i /= setlen;
\* if (i == 0) break; while len < maxlen.
RECURSIVE AlphaLoop(_, _, _)
AlphaLoop(s, maxlen, x) ==
    IF Len(s) < maxlen
    THEN LET s2 == Append(s, AlphaSet(Mod62(x)))
             x2 == Div62(x)
         IN  IF x2 = <<0, 0>> THEN s2 ELSE AlphaLoop(s2, maxlen, x2)
    ELSE s

\* static size_t int2alphakey(char *s, size_t maxlen, uint32_t i): the bytes
\* written (with the terminator) and the length returned.
int2alphakey(maxlen, x) ==
    IF maxlen = 0 THEN [buf |-> <<>>, len |-> 0]
    ELSE LET s == AlphaLoop(<<>>, maxlen - 1, x)
         IN  [buf |-> Append(s, 0), len |-> Len(s)]

\* i % 10 and i / 10 of a uint32_t
Mod10(x) == ((x[1] % 10) * W16 + x[2]) % 10

Div10(x) == <<x[1] \div 10, ((x[1] % 10) * W16 + x[2]) \div 10>>

\* The decimal digits of the uint32_t x, as bytes
RECURSIVE Decimal(_)
Decimal(x) ==
    IF x[1] = 0 /\ x[2] < 10 THEN <<48 + x[2]>>
    ELSE Append(Decimal(Div10(x)), 48 + Mod10(x))

\* snprintf(s,maxlen,"%lu",(unsigned long)i): writes at most maxlen-1 digits
\* and a terminator, returns the number of digits of i.
SnprintfLu(maxlen, x) ==
    LET d == Decimal(x)
        n == IF Len(d) < maxlen THEN Len(d) ELSE maxlen - 1
    IN  [buf |-> IF maxlen = 0 THEN <<>> ELSE Append(SubSeq(d, 1, n), 0),
         len |-> Len(d)]

\* static size_t int2key(char *s, size_t maxlen, uint32_t i, int mode) for
\* the modes that do not call rand(): the bytes written and the length
\* returned.
int2key(maxlen, x, mode) ==
    IF mode = KEY_INT THEN SnprintfLu(maxlen, x)
    ELSE IF mode = KEY_UNIQUE_ALPHA THEN int2alphakey(maxlen, int2int(x))
    ELSE [buf |-> <<>>, len |-> 0]

\* An int2key that draws a length up to maxlen.
int2keyRandomUpTo(maxlen, d) ==
    LET r == d[1] % (maxlen + 1)
    IN  [buf |-> [j \in 1..r |-> 0], len |-> r]

\* int2key in mode KEY_RANDOM, d being what the calls of rand() return, one
\* after the other: r = rand() % maxlen, then s[i] = rand()&0xff for the r
\* bytes; no terminator is written.
int2keyRandom(maxlen, d) ==
    LET r == d[1] % maxlen
    IN  [buf |-> [j \in 1..r |-> d[j + 1] % 256], len |-> r]

\* ------------------------------------------------------------------------
\* The keys and values of the model
\* ------------------------------------------------------------------------

\* Keys of the hash table operations: the empty key; two keys of its bucket
\* that have the same length and differ only after a zero byte; the zero
\* byte alone, which is a prefix of both and of another bucket.
OracleKeys == { <<>>, <<0>>, <<0, 22, 230, 228>>, <<0, 22, 231, 195>> }

Values == {10, 20}

\* The buckets the keys K address; no operation on keys of K reads or
\* writes another one.
BucketsOf(K) == { htHash(k, Len(k)) : k \in K }

\* What the calls of rand() of one int2key may return in a fuzz run: a
\* length and as many bytes.
RandDraws == { <<64>>, <<2, 257, 33>>, <<66, 0, 66>> }

\* The keys these make in mode KEY_RANDOM: no byte at all, and two keys of
\* the same bucket.
RandKeys == { int2keyRandom(KeyBufSize, d).buf : d \in RandDraws }

\* A key no mode generates in FuzzIters iterations: "7".
PhantomKey == <<55>>

\* The keys fuzzTest generates in a mode.
GenKeys(mode) ==
    IF mode = KEY_RANDOM THEN RandKeys
    ELSE { LET g == int2key(KeyBufSize, U32(n), mode) IN SubSeq(g.buf, 1, g.len) :
             n \in 0..(FuzzIters - 1) }

\* The keys the iterator of the index may yield in a mode.
IterKeys(mode) == GenKeys(mode) \union {PhantomKey}

\* What an uninitialized head may lead to: nodes that look like entries of
\* the keys GK, with the data 10 or, with hashed, the hash of the key.
GarbageNodesOf(GK, hashed) ==
    { [keylen |-> Len(k), key |-> k,
       data |-> IF hashed THEN htHash(k, Len(k)) ELSE 10] : k \in GK }

OracleGarbage == GarbageNodesOf({ <<>>, <<0, 22, 230, 228>> }, FALSE)

\* In a fuzz run: a key the mode generates, and the key no mode generates.
FuzzGarbage(mode) ==
    GarbageNodesOf({ IF mode = KEY_RANDOM THEN <<0, 66>>
                     ELSE LET g == int2key(KeyBufSize, U32(0), mode)
                          IN  SubSeq(g.buf, 1, g.len),
                     PhantomKey }, TRUE)

\* ------------------------------------------------------------------------
\* State
\* ------------------------------------------------------------------------

VARIABLES
    table,      \* ht->table: bucket -> the chain its head leads to
    wild,       \* bucket -> TRUE when the last link of the chain is an
                \* uninitialized pointer that cannot be dereferenced
    numele,     \* ht->numele
    crashed,    \* the process died dereferencing a wild pointer
    dirty,      \* history: htNew returned a table with a head that is not NULL
    shadow,     \* history: the abstract map run beside the table
    removals,   \* history: TRUE once a htRem call has removed an entry
    lastOp,     \* history: the last call, its arguments and what it returned
    pc,         \* where main() and fuzzTest() stand
    argv,       \* the command line, without the program name, until main()
                \* has read it
    flags,      \* do_benchmark, do_units, do_fuzz
    errors,     \* main: errors
    keymode,    \* fuzzTest: keymode
    i,          \* fuzzTest: the index of the insertion loop
    key,        \* fuzzTest: key[] as far as written, and keylen
    val,        \* fuzzTest: val
    retval1,    \* fuzzTest: retval1
    numkeys,    \* fuzzTest: numkeys
    yielded,    \* history: how often the traversal yielded each key
    lastYield,  \* history: the last key yielded and the three values compared
    inserts,    \* history of this run: the calls of htAdd and of raxInsert,
                \* the calls of raxInsert that returned 1, the calls on
                \* which both agreed, rax->numele as read
    verdicts,   \* history: the runs so far, each with what fuzzTest returned
    gen         \* a call of int2key() and of htHash() taken on its own: the
                \* arguments, what rand() returns to it, and the results

htVars == <<table, wild, numele, dirty>>

histVars == <<shadow, removals, lastOp>>

mainVars == <<argv, flags, errors, verdicts, gen>>

fuzzVars == <<keymode, i, key, val, retval1, numkeys, yielded, lastYield, inserts>>

vars == <<table, wild, numele, crashed, dirty, shadow, removals, lastOp,
          pc, argv, flags, errors, keymode, i, key, val, retval1, numkeys,
          yielded, lastYield, inserts, verdicts, gen>>

\* ------------------------------------------------------------------------
\* htNew
\* ------------------------------------------------------------------------

\* What a pointer n->key of a node can be: the node's own allocation, which
\* is given by its bytes, or CallerBuf, the address of the buffer key[] of
\* fuzzTest.
CallerBuf == <<-1>>

\* A htAdd that keeps the pointer of its caller.
htAddKeyAlias(s, len) == CallerBuf

\* n->key = malloc(len); memcpy(n->key,s,len), lines 95-96
htAddKey(s, len) == SubSeq(s, 1, len)

\* The bytes n->key points at.
KeyBytes(n) == IF n.key = CallerBuf THEN key.buf ELSE n.key

\* struct htNode, without the next pointer (the chain is a sequence)
htNode(s, len, data) ==
    [keylen |-> len, key |-> htAddKey(s, len), data |-> data]

\* The chains an uninitialized head of bucket b may lead to: of the nodes GN,
\* those with a key of this bucket (a lookup never matches another one).
GarbageChains(GN, b) ==
    UNION { [1..n -> { g \in GN : htHash(g.key, g.keylen) = b }] :
              n \in 0..MaxGarbageLen }

\* An uninitialized head: NULL, or a pointer to what looks like a chain,
\* whose last link is NULL or cannot be dereferenced.
GarbageHeads(GN, b) == [chain : GarbageChains(GN, b), wild : BOOLEAN]

DirtySets(B) == { D \in SUBSET B : Cardinality(D) <= MaxDirty }

\* hashtable *htNew(void): malloc() and numele = 0; table[] is not written.
\* B are the buckets of the model, GN the nodes a head that is not NULL may
\* lead to.
htNew(B, GN) ==
    UNION { { [table  |-> [b \in B |-> IF b \in D THEN g[b].chain ELSE <<>>],
               wild   |-> [b \in B |-> b \in D /\ g[b].wild],
               numele |-> 0] :
              g \in { f \in [D -> UNION { GarbageHeads(GN, b) : b \in D }] :
                        \A b \in D : f[b] \in GarbageHeads(GN, b) } } :
            D \in DirtySets(B) }

\* Some head of the fresh table f is not NULL.
IsDirty(f) == \E b \in DOMAIN f.table : f.table[b] # <<>> \/ f.wild[b]

\* ------------------------------------------------------------------------
\* htRawLookup, htAdd, htRem, htFind
\* ------------------------------------------------------------------------

\* The bytes of b before its first zero byte.
RECURSIVE CString(_, _)
CString(b, j) ==
    IF j > Len(b) \/ b[j] = 0 THEN <<>> ELSE <<b[j]>> \o CString(b, j + 1)

\* A lookup that compares the keys as C strings.
KeyMatchCString(n, s, len) ==
    CString(KeyBytes(n), 1) = CString(SubSeq(s, 1, len), 1)

\* n->keylen == len && memcmp(n->key,s,len) == 0
KeyMatch(n, s, len) ==
    /\ n.keylen = len
    /\ LET m == KeyBytes(n)
       IN  Len(m) >= len /\ \A j \in 1..len : m[j] = s[j]

\* htNode *htRawLookup(t,s,len,&hash,&parentlink): n is the position of the
\* node returned (0 for NULL), parentlink the link that points at it, or the
\* last link of the chain when there is none; fault: the walk reaches a
\* pointer it cannot dereference.
htRawLookup(t, w, s, len) ==
    LET h     == htHash(s, len)
        chain == t[h]
        hits  == { j \in 1..Len(chain) : KeyMatch(chain[j], s, len) }
        n     == IF hits = {} THEN 0
                 ELSE CHOOSE j \in hits : \A m \in hits : j <= m
    IN  [hash       |-> h,
         n          |-> n,
         parentlink |-> IF n = 0 THEN Len(chain) ELSE n - 1,
         fault      |-> n = 0 /\ w[h]]

\* t->numele++
htAddNumele(n) == n + 1

\* The table htAdd leaves.
htAddTable(t, w, s, len, data) ==
    LET r == htRawLookup(t, w, s, len)
    IN  IF r.n = 0
        THEN [t EXCEPT ![r.hash] = <<htNode(s, len, data)>> \o @]
        ELSE [t EXCEPT ![r.hash][r.n].data = data]

\* What htAdd returns.
htAddRet(t, w, s, len) ==
    IF htRawLookup(t, w, s, len).n = 0 THEN 1 ELSE 0

\* htRem: the counter after an entry was unlinked (lines 116-119 leave
\* t->numele alone).
htRemNumele(n) == n

\* The chain without the node the link number pl points at.
Unlink(chain, pl) ==
    SubSeq(chain, 1, pl) \o SubSeq(chain, pl + 2, Len(chain))

\* The table htRem leaves: *parentlink = n->next.
htRemTable(t, w, s, len) ==
    LET r == htRawLookup(t, w, s, len)
    IN  IF r.n = 0 THEN t
        ELSE [t EXCEPT ![r.hash] = Unlink(@, r.parentlink)]

\* What htRem returns.
htRemRet(t, w, s, len) ==
    IF htRawLookup(t, w, s, len).n = 0 THEN 0 ELSE 1

\* void *htFind(t,s,len)
htFind(t, w, s, len) ==
    LET r == htRawLookup(t, w, s, len)
    IN  IF r.n = 0 THEN htNotFound ELSE t[r.hash][r.n].data

\* ------------------------------------------------------------------------
\* The hash table under any sequence of calls (specification Spec)
\* ------------------------------------------------------------------------

NoOp == [op |-> "htNew", key |-> <<>>, data |-> 0, ret |-> 0]

NoInserts == [ht |-> 0, rax |-> 0, new |-> 0, agreed |-> 0, count |-> -1]

\* No call of int2key() on its own.
NoGen == [pc |-> "none"]

\* The variables of main() and fuzzTest() before main() starts.
Idle ==
    /\ pc = "main"
    /\ flags = [bench |-> 0, units |-> 1, fuzz |-> 1]
    /\ errors = 0
    /\ keymode = KEY_INT
    /\ i = 0
    /\ key = [buf |-> <<>>, len |-> 0]
    /\ val = 0
    /\ retval1 = 0
    /\ numkeys = 0
    /\ yielded = <<>>
    /\ lastYield = <<>>
    /\ inserts = NoInserts
    /\ verdicts = <<>>

Init ==
    /\ \E f \in htNew(BucketsOf(OracleKeys), OracleGarbage) :
        /\ table = f.table
        /\ wild = f.wild
        /\ numele = f.numele
        /\ dirty = IsDirty(f)
    /\ crashed = FALSE
    /\ shadow = [k \in OracleKeys |-> htNotFound]
    /\ removals = FALSE
    /\ lastOp = NoOp
    /\ argv = <<>>
    /\ gen = NoGen
    /\ Idle

\* The walk of htRawLookup dereferences an uninitialized pointer.
Fault(s, len) ==
    /\ htRawLookup(table, wild, s, len).fault
    /\ crashed' = TRUE
    /\ UNCHANGED <<htVars, histVars, pc, mainVars, fuzzVars>>

HtAdd(s, data) ==
    LET len == Len(s)
        ret == htAddRet(table, wild, s, len)
    IN  /\ ~crashed
        /\ \/ Fault(s, len)
           \/ /\ ~htRawLookup(table, wild, s, len).fault
              /\ ret = 1 => numele < MaxNumele
              /\ table' = htAddTable(table, wild, s, len, data)
              /\ numele' = IF ret = 1 THEN htAddNumele(numele) ELSE numele
              /\ shadow' = [shadow EXCEPT ![s] = data]
              /\ lastOp' = [op |-> "htAdd", key |-> s, data |-> data, ret |-> ret]
              /\ UNCHANGED <<wild, crashed, dirty, removals, pc, mainVars, fuzzVars>>

HtRem(s) ==
    LET len == Len(s)
        ret == htRemRet(table, wild, s, len)
    IN  /\ ~crashed
        /\ \/ Fault(s, len)
           \/ /\ ~htRawLookup(table, wild, s, len).fault
              /\ table' = htRemTable(table, wild, s, len)
              /\ numele' = IF ret = 1 THEN htRemNumele(numele) ELSE numele
              /\ shadow' = [shadow EXCEPT ![s] = htNotFound]
              /\ removals' = (removals \/ ret = 1)
              /\ lastOp' = [op |-> "htRem", key |-> s, data |-> 0, ret |-> ret]
              /\ UNCHANGED <<wild, crashed, dirty, pc, mainVars, fuzzVars>>

HtFind(s) ==
    LET len == Len(s)
    IN  /\ ~crashed
        /\ \/ Fault(s, len)
           \/ /\ ~htRawLookup(table, wild, s, len).fault
              /\ lastOp' = [op |-> "htFind", key |-> s, data |-> 0,
                            ret |-> htFind(table, wild, s, len)]
              /\ UNCHANGED <<htVars, crashed, shadow, removals, pc, mainVars, fuzzVars>>

Next ==
    \/ \E s \in OracleKeys, data \in Values : HtAdd(s, data)
    \/ \E s \in OracleKeys : HtRem(s)
    \/ \E s \in OracleKeys : HtFind(s)

Spec == Init /\ [][Next]_vars

\* ------------------------------------------------------------------------
\* The index under test (rax.h), as fuzzTest uses it: any answer
\* ------------------------------------------------------------------------

\* int raxInsert(rax,key,keylen,val): 1 when the key was new, else 0.
RaxInsertRets == {0, 1}

\* rax->numele
RaxNumeleVals == 0..FuzzIters

\* void *raxNotFound, another address of the program's read-only data.
raxNotFound == 4202512

\* raxFind(rax,key,key_len): the value stored, which is the hash of the key
\* in a correct index, or another pointer: the not-found sentinel of the
\* index, or the one of the hash table.
RaxFindVals(k) ==
    { htHash(k, Len(k)), raxNotFound, htNotFound }

\* ------------------------------------------------------------------------
\* main() and fuzzTest() (specification FuzzSpec)
\* ------------------------------------------------------------------------

Args == { "--bench", "--fuzz", "--units", "--help" }

ArgvSet == UNION { [1..n -> Args] : n \in 0..MaxArgs }

\* The loop over argv of main(): the flags after the arguments a[j..], or
\* usage when one of them is not recognized.
RECURSIVE ParseLoop(_, _, _)
ParseLoop(a, j, f) ==
    IF j > Len(a) THEN [usage |-> FALSE, flags |-> f]
    ELSE IF a[j] = "--bench" THEN ParseLoop(a, j + 1, [f EXCEPT !.bench = 1])
    ELSE IF a[j] = "--fuzz" THEN ParseLoop(a, j + 1, [f EXCEPT !.fuzz = 1])
    ELSE IF a[j] = "--units" THEN ParseLoop(a, j + 1, [f EXCEPT !.units = 1])
    ELSE [usage |-> TRUE, flags |-> f]

\* A main() that leaves the defaults when there are arguments.
ParseArgsKeepDefaults(a) ==
    ParseLoop(a, 1, [bench |-> 0, units |-> 1, fuzz |-> 1])

\* main(), lines 271-295
ParseArgs(a) ==
    IF Len(a) > 0
    THEN ParseLoop(a, 1, [bench |-> 0, units |-> 0, fuzz |-> 0])
    ELSE [usage |-> FALSE, flags |-> [bench |-> 0, units |-> 1, fuzz |-> 1]]

FuzzInit ==
    /\ table = <<>>
    /\ wild = <<>>
    /\ numele = 0
    /\ dirty = FALSE
    /\ crashed = FALSE
    /\ shadow = <<>>
    /\ removals = FALSE
    /\ lastOp = NoOp
    /\ argv \in ArgvSet
    /\ gen = NoGen
    /\ Idle

\* main(): the arguments, then the first fuzz run or the end.
MainParse ==
    /\ pc = "main"
    /\ LET p == ParseArgs(argv)
       IN  /\ flags' = p.flags
           /\ pc' = IF p.usage THEN "usage"
                    ELSE IF p.flags.fuzz = 1 THEN "call" ELSE "exit"
    /\ errors' = 0
    /\ argv' = <<>>
    /\ UNCHANGED <<htVars, crashed, histVars, verdicts, gen, fuzzVars>>

\* fuzzTest(keymode), lines 212-213: htNew() and raxNew().
FuzzStart ==
    /\ pc = "call"
    /\ \E f \in htNew(BucketsOf(IterKeys(keymode)), FuzzGarbage(keymode)) :
        /\ table' = f.table
        /\ wild' = f.wild
        /\ numele' = f.numele
        /\ dirty' = IsDirty(f)
    /\ shadow' = [k \in IterKeys(keymode) |-> htNotFound]
    /\ i' = 0
    /\ yielded' = [k \in IterKeys(keymode) |-> 0]
    /\ pc' = "gen"
    /\ UNCHANGED <<crashed, removals, lastOp, mainVars, keymode, key, val,
                   retval1, numkeys, lastYield, inserts>>

\* fuzzTest returns r to main(): its locals are gone, and nothing points at
\* the table any more.
Return(r) ==
    /\ pc' = "ret"
    /\ verdicts' = Append(verdicts, [mode |-> keymode, ret |-> r])
    /\ table' = <<>>
    /\ wild' = <<>>
    /\ numele' = 0
    /\ dirty' = FALSE
    /\ shadow' = <<>>
    /\ i' = 0
    /\ key' = [buf |-> <<>>, len |-> 0]
    /\ val' = 0
    /\ retval1' = 0
    /\ numkeys' = 0
    /\ yielded' = <<>>

\* Lines 219-222: the loop condition, int2key() and htHash().
Generate ==
    /\ pc = "gen"
    /\ \/ /\ i < FuzzIters
          /\ \/ /\ keymode # KEY_RANDOM
                /\ key' = int2key(KeyBufSize, U32(i), keymode)
             \/ /\ keymode = KEY_RANDOM
                /\ \E d \in RandDraws : key' = int2keyRandom(KeyBufSize, d)
          /\ val' = htHash(key'.buf, key'.len)
          /\ pc' = "htAdd"
       \/ /\ i >= FuzzIters
          /\ pc' = "count"
          /\ UNCHANGED <<key, val>>
    /\ UNCHANGED <<htVars, crashed, histVars, mainVars, keymode, i, retval1,
                   numkeys, yielded, lastYield, inserts>>

\* A lookup of fuzzTest dereferences an uninitialized pointer.
FuzzFault(s, len) ==
    /\ htRawLookup(table, wild, s, len).fault
    /\ crashed' = TRUE
    /\ pc' = "crashed"
    /\ UNCHANGED <<htVars, histVars, mainVars, fuzzVars>>

\* Line 224: retval1 = htAdd(ht,key,keylen,val)
OracleInsert ==
    /\ pc = "htAdd"
    /\ \/ FuzzFault(key.buf, key.len)
       \/ /\ ~htRawLookup(table, wild, key.buf, key.len).fault
          /\ retval1' = htAddRet(table, wild, key.buf, key.len)
          /\ table' = htAddTable(table, wild, key.buf, key.len, val)
          /\ numele' = IF retval1' = 1 THEN htAddNumele(numele) ELSE numele
          /\ shadow' = [shadow EXCEPT ![SubSeq(key.buf, 1, key.len)] = val]
          /\ inserts' = [inserts EXCEPT !.ht = @ + 1]
          /\ pc' = "raxInsert"
          /\ UNCHANGED <<wild, dirty, crashed, removals, lastOp, mainVars,
                         keymode, i, key, val, numkeys, yielded, lastYield>>

\* A fuzzTest that never sees the two stores disagree.
InsertMismatchNever(r1, r2) == FALSE

\* if (retval1 != retval2), line 226
InsertMismatch(r1, r2) == r1 # r2

\* Lines 225-230: retval2 = raxInsert(rax,key,keylen,val) and the comparison.
IndexInsert ==
    /\ pc = "raxInsert"
    /\ \E retval2 \in RaxInsertRets :
        /\ inserts' = [inserts EXCEPT !.rax = @ + 1,
                                     !.new = @ + retval2,
                                     !.agreed = IF retval1 = retval2 THEN @ + 1 ELSE @]
        /\ \/ /\ InsertMismatch(retval1, retval2)
              /\ Return(1)
           \/ /\ ~InsertMismatch(retval1, retval2)
              /\ i' = i + 1
              /\ pc' = "gen"
              /\ UNCHANGED <<htVars, shadow, key, val, retval1, numkeys,
                             yielded, verdicts>>
    /\ UNCHANGED <<crashed, removals, lastOp, argv, flags, errors, gen,
                   keymode, lastYield>>

\* if (ht->numele != rax->numele), line 233
CountMismatch(n, raxNumele) == n # raxNumele

\* Lines 233-246: the counts, then raxStart(), raxSeek() and numkeys = 0.
CountCheck ==
    /\ pc = "count"
    /\ \E raxNumele \in RaxNumeleVals :
        /\ inserts' = [inserts EXCEPT !.count = raxNumele]
        /\ \/ /\ CountMismatch(numele, raxNumele)
              /\ Return(1)
           \/ /\ ~CountMismatch(numele, raxNumele)
              /\ numkeys' = 0
              /\ pc' = "next"
              /\ UNCHANGED <<htVars, shadow, i, key, val, retval1, yielded,
                             verdicts>>
    /\ UNCHANGED <<crashed, removals, lastOp, argv, flags, errors, gen,
                   keymode, lastYield>>

\* A fuzzTest that takes && for ||.
ValueMismatchBoth(val1, val2, expected) == val1 # val2 /\ val1 # expected

\* if (val1 != val2 || val1 != expected), line 251
ValueMismatch(val1, val2, expected) == val1 # val2 \/ val1 # expected

\* Lines 247-257: raxNext() and the check of the key it yields.
IterNext ==
    /\ pc = "next"
    /\ \/ /\ pc' = "done"
          /\ UNCHANGED <<htVars, histVars, crashed, mainVars, fuzzVars>>
       \/ \E k \in IterKeys(keymode) :
            \/ /\ FuzzFault(k, Len(k))
            \/ /\ ~htRawLookup(table, wild, k, Len(k)).fault
               /\ \E val2 \in RaxFindVals(k) :
                    LET expected == htHash(k, Len(k))
                        val1     == htFind(table, wild, k, Len(k))
                    IN  /\ lastYield' = [key |-> k, val1 |-> val1, val2 |-> val2,
                                         expected |-> expected]
                        /\ \/ /\ ValueMismatch(val1, val2, expected)
                              /\ Return(1)
                           \/ /\ ~ValueMismatch(val1, val2, expected)
                              /\ numkeys < MaxYield
                              /\ numkeys' = numkeys + 1
                              /\ yielded' = [yielded EXCEPT ![k] = @ + 1]
                              /\ pc' = "next"
                              /\ UNCHANGED <<htVars, shadow, i, key, val,
                                             retval1, verdicts>>
               /\ UNCHANGED <<crashed, removals, lastOp, argv, flags, errors,
                              gen, keymode, inserts>>

\* A fuzzTest that only asks for enough keys.
DoneMismatchFewer(n, nk) == n > nk

\* if (ht->numele != numkeys), line 260
DoneMismatch(n, nk) == n # nk

\* Lines 260-267
DoneCheck ==
    /\ pc = "done"
    /\ IF DoneMismatch(numele, numkeys) THEN Return(1) ELSE Return(0)
    /\ UNCHANGED <<crashed, removals, lastOp, argv, flags, errors, gen,
                   keymode, lastYield, inserts>>

\* A main() that sets the error count instead of incrementing it.
CountErrorSet(e, r) == IF r # 0 THEN 1 ELSE e

\* if (fuzzTest(m)) errors++, lines 299-301
CountError(e, r) == IF r # 0 THEN e + 1 ELSE e

\* What the process exits with: exit(1) after the usage message, else what
\* main() returns.
ExitStatus == IF pc = "usage" THEN 1 ELSE errors

\* main(), lines 299-303: count the failure, then the next mode or the end.
MainNext ==
    /\ pc = "ret"
    /\ errors' = CountError(errors, verdicts[Len(verdicts)].ret)
    /\ IF keymode < KEY_RANDOM
       THEN keymode' = keymode + 1 /\ pc' = "call"
       ELSE keymode' = keymode /\ pc' = "exit"
    /\ lastYield' = <<>>
    /\ inserts' = NoInserts
    /\ UNCHANGED <<htVars, crashed, histVars, argv, flags, verdicts, gen, i,
                   key, val, retval1, numkeys, yielded>>

FuzzNext ==
    \/ MainParse
    \/ FuzzStart
    \/ Generate
    \/ OracleInsert
    \/ IndexInsert
    \/ CountCheck
    \/ IterNext
    \/ DoneCheck
    \/ MainNext

FuzzSpec == FuzzInit /\ [][FuzzNext]_vars

\* ------------------------------------------------------------------------
\* int2key() and htHash() on their own (specification GenSpec)
\* ------------------------------------------------------------------------

\* Indices at which something changes: the digits of base 62 and of base 10
\* (61, 62, 3843, 3844, 99, 100), the halves (65535, 65536), the last index
\* of fuzzTest (999999), the sign bit (2^31 - 1, 2^31), the largest uint32_t,
\* and two whose int2int() is small (a key of 3 bytes).
EdgeIndices ==
    { <<0, 61>>, <<0, 62>>, <<0, 99>>, <<0, 100>>, <<0, 3843>>, <<0, 3844>>,
      <<0, 65535>>, <<1, 0>>, <<15, 16959>>, <<32767, 65535>>, <<32768, 0>>,
      <<65535, 65535>>, <<0, 6927>>, <<1, 65>> }

Indices == { <<0, n>> : n \in 0..MaxIndexLow } \union EdgeIndices

\* What rand() returns to a call in mode KEY_RANDOM: as in a fuzz run, and
\* the longest key there is (r = 127 % 64 = 63, the bytes 1, 2, ..., 63).
LongDraw == [n \in 1..KeyBufSize |-> IF n = 1 THEN 2 * KeyBufSize - 1 ELSE 255 + n]

GenDraws == RandDraws \union { LongDraw }

\* The calls: a mode, the index, what rand() returns.
GenCalls ==
    { [pc |-> "int2key", mode |-> m, i |-> x, rand |-> <<>>,
       key |-> [buf |-> <<>>, len |-> 0], hash |-> 0] :
        m \in {KEY_INT, KEY_UNIQUE_ALPHA}, x \in Indices }
    \union
    { [pc |-> "int2key", mode |-> KEY_RANDOM, i |-> <<0, 0>>, rand |-> d,
       key |-> [buf |-> <<>>, len |-> 0], hash |-> 0] : d \in GenDraws }
    \union
    { [pc |-> "int2key", mode |-> KEY_RANDOM + 1, i |-> <<0, 0>>, rand |-> <<>>,
       key |-> [buf |-> <<>>, len |-> 0], hash |-> 0] }

GenInit ==
    /\ table = <<>>
    /\ wild = <<>>
    /\ numele = 0
    /\ dirty = FALSE
    /\ crashed = FALSE
    /\ shadow = <<>>
    /\ removals = FALSE
    /\ lastOp = NoOp
    /\ argv = <<>>
    /\ gen \in GenCalls
    /\ Idle

\* keylen = int2key((char*)key,sizeof(key),i,keymode), line 221
Int2Key ==
    /\ gen.pc = "int2key"
    /\ gen' = [gen EXCEPT
                 !.key = IF gen.mode = KEY_RANDOM
                         THEN int2keyRandom(KeyBufSize, gen.rand)
                         ELSE int2key(KeyBufSize, gen.i, gen.mode),
                 !.pc = "htHash"]
    /\ UNCHANGED <<htVars, crashed, histVars, pc, argv, flags, errors,
                   verdicts, fuzzVars>>

\* val = htHash(key,keylen), line 222
HtHash ==
    /\ gen.pc = "htHash"
    /\ gen' = [gen EXCEPT !.hash = htHash(gen.key.buf, gen.key.len),
                          !.pc = "ret"]
    /\ UNCHANGED <<htVars, crashed, histVars, pc, argv, flags, errors,
                   verdicts, fuzzVars>>

GenNext == Int2Key \/ HtHash

GenSpec == GenInit /\ [][GenNext]_vars

\* ------------------------------------------------------------------------
\* Claims about the hash table (specification Spec)
\* ------------------------------------------------------------------------

RECURSIVE SumLen(_, _)
SumLen(t, B) ==
    IF B = {} THEN 0
    ELSE LET b == CHOOSE x \in B : TRUE
         IN  Len(t[b]) + SumLen(t, B \ {b})

\* The number of entries reachable across all bucket chains.
EntryCount(t) == SumLen(t, DOMAIN t)

\* An entry with key k is in some chain of t.
Present(t, k) ==
    \E b \in DOMAIN t : \E j \in 1..Len(t[b]) :
        t[b][j].keylen = Len(k) /\ t[b][j].key = k

Find(t, k) == htFind(t, wild, k, Len(k))

\* The step is a call of op that returned (it did not fault).
Called(op) == lastOp'.op = op /\ ~crashed' /\ vars' # vars

\* C1: the counter equals the number of entries reachable across all chains
\* in every reachable state; stated on the steps, which the invariant
\* implies: every call changes the counter by as much as it changes the
\* number of entries, so a htRem of a present key decrements it by one.
C1_CounterTracksEntries ==
    [][numele' - numele = EntryCount(table') - EntryCount(table)]_vars

\* C1 from a table whose heads happen to be all NULL: violated as well, by
\* htRem alone.
C1_WhenZeroed ==
    [][~dirty => numele' - numele = EntryCount(table') - EntryCount(table)]_vars

\* The part of C1 that the code keeps: htAdd changes the counter by as much
\* as the number of entries, whatever the table held before.
C1_AddTracksEntries ==
    [][Called("htAdd") =>
          numele' - numele = EntryCount(table') - EntryCount(table)]_vars

\* C2: the table behaves as the abstract map run beside it: find(key) is the
\* value of the most recent insert of the key not removed since, and the
\* not-found sentinel otherwise.
C2_FindIsShadow ==
    ~crashed => \A k \in OracleKeys : Find(table, k) = shadow[k]

\* C2 from a table whose heads happen to be all NULL.
C2_WhenZeroed == ~dirty => C2_FindIsShadow

\* C3: insert returns 1 exactly when no entry with the key is present, and
\* then the counter grows by one; when the key is present it returns 0, the
\* value is replaced, the counter and every other entry stay; so with no
\* removal the counter is the number of distinct keys inserted.
C3_AddStep ==
    LET k == lastOp'.key
    IN  Called("htAdd") =>
          /\ lastOp'.ret = 1 <=> ~Present(table, k)
          /\ lastOp'.ret = 1 => numele' = numele + 1
          /\ lastOp'.ret = 0 => numele' = numele
          /\ Find(table', k) = lastOp'.data
          /\ \A k2 \in OracleKeys \ {k} : Find(table', k2) = Find(table, k2)
          /\ ~removals' =>
                numele' = Cardinality({ x \in OracleKeys : shadow'[x] # htNotFound })

C3_Insert == [][C3_AddStep]_vars

\* C3 from a table whose heads happen to be all NULL.
C3_WhenZeroed == [][~dirty => C3_AddStep]_vars

\* C4: no two entries, in the same chain or in different chains, have the
\* same key.
C4_NoDuplicateKey ==
    \A b1 \in DOMAIN table, b2 \in DOMAIN table :
        \A j1 \in 1..Len(table[b1]), j2 \in 1..Len(table[b2]) :
            (<<b1, j1>> # <<b2, j2>>) =>
                \/ table[b1][j1].keylen # table[b2][j2].keylen
                \/ table[b1][j1].key # table[b2][j2].key

\* C4 from a table whose heads happen to be all NULL.
C4_WhenZeroed == ~dirty => C4_NoDuplicateKey

\* C5: remove returns 0 for an absent key and leaves the table unchanged;
\* for a present key it returns 1 and unlinks exactly that entry: the key is
\* not found afterwards and every other key is found as before.
C5_RemStep ==
    LET k == lastOp'.key
    IN  Called("htRem") =>
          /\ lastOp'.ret = 1 <=> Present(table, k)
          /\ lastOp'.ret = 0 => table' = table
          /\ lastOp'.ret = 1 => EntryCount(table') = EntryCount(table) - 1
          /\ Find(table', k) = htNotFound
          /\ \A k2 \in OracleKeys \ {k} : Find(table', k2) = Find(table, k2)

C5_Remove == [][C5_RemStep]_vars

\* C5 from a table whose heads happen to be all NULL.
C5_WhenZeroed == [][~dirty => C5_RemStep]_vars

\* C6: right after create() the counter is zero and every bucket head is
\* empty, so find of any key is the not-found sentinel and the first insert
\* of any key reports "new".
C6_FreshIsEmpty ==
    lastOp.op = "htNew" =>
        /\ numele = 0
        /\ \A b \in DOMAIN table : table[b] = <<>> /\ ~wild[b]
        /\ \A k \in OracleKeys :
            /\ Find(table, k) = htNotFound
            /\ htAddRet(table, wild, k, Len(k)) = 1

\* C13: the identity of a key in the Oracle is the equality of length and
\* bytes, the length and no terminator byte being what counts: insert, find
\* and remove act on the entry with exactly the key given and on no other,
\* so that the empty key, a key and its prefix, and keys that differ only
\* after a zero byte are stored and found as entries of their own.
C13_Step ==
    LET k == lastOp'.key
    IN  /\ (Called("htAdd") \/ Called("htRem") \/ Called("htFind")) =>
              \A k2 \in OracleKeys \ {k} :
                  /\ Present(table', k2) = Present(table, k2)
                  /\ Find(table', k2) = Find(table, k2)
        /\ Called("htAdd") =>
              /\ lastOp'.ret = 0 <=> Present(table, k)
              /\ Present(table', k)
              /\ Find(table', k) = lastOp'.data
        /\ Called("htFind") =>
              /\ lastOp'.ret = htNotFound <=> ~Present(table, k)
              /\ lastOp'.ret = Find(table, k)
        /\ Called("htRem") =>
              lastOp'.ret = 1 <=> Present(table, k)

C13_KeyIdentity == [][C13_Step]_vars

\* The empty key and the two keys that differ after their zero byte are in
\* the one chain of bucket 5381, each with the value of its own insertion,
\* and the zero byte alone is not there.
C13_Witness ==
    /\ ~dirty
    /\ Len(table[5381]) = 3
    /\ Present(table, <<>>)
    /\ Find(table, <<>>) = 10
    /\ Find(table, <<0, 22, 230, 228>>) = 20
    /\ Find(table, <<0, 22, 231, 195>>) = 10
    /\ Find(table, <<0>>) = htNotFound
    /\ lastOp.op = "htFind" /\ lastOp.key = <<0>>

\* ------------------------------------------------------------------------
\* Claims about fuzzTest() and main() (specification FuzzSpec)
\* ------------------------------------------------------------------------

\* The phase of a run at a place of fuzzTest.
Phase(p) ==
    IF p \in {"gen", "htAdd", "raxInsert"} THEN "Populate"
    ELSE IF p = "count" THEN "CountCheck"
    ELSE IF p = "next" THEN "Traverse"
    ELSE IF p = "done" THEN "Done"
    ELSE "none"

\* The step ends the run with r.
Returns(r) ==
    /\ pc # "ret" /\ pc' = "ret"
    /\ verdicts'[Len(verdicts')].ret = r

\* The moves from one phase to another one that the claim allows.
PhaseMoves ==
    { <<"Populate", "CountCheck">>, <<"CountCheck", "Traverse">>,
      <<"Traverse", "Done">> }

\* C7: a run moves through its phases only in the order Populate,
\* CountCheck, Traverse, Done, with Failed reachable from any of them; the
\* first insertion on which the two stores disagree ends the run Failed with
\* no further insertion; CountCheck is reached only after all insertions
\* agreed; Traverse is entered only with equal counts; success only by
\* passing the Done check.
C7_Step ==
    /\ (Phase(pc) # "none" /\ ~crashed') =>
          \/ Phase(pc') = Phase(pc)
          \/ <<Phase(pc), Phase(pc')>> \in PhaseMoves
          \/ Returns(1)
          \/ Phase(pc) = "Done" /\ Returns(0)
    /\ (pc = "raxInsert" /\ pc' # pc /\ inserts'.agreed = inserts.agreed) =>
          /\ Returns(1)
          /\ inserts'.ht = inserts.ht
    /\ inserts'.agreed < inserts'.rax => pc' = "ret"
    /\ Phase(pc') = "Populate" => inserts'.ht - inserts'.rax \in {0, 1}
    /\ Phase(pc') \in {"CountCheck", "Traverse", "Done"} =>
          /\ inserts'.agreed = FuzzIters
          /\ inserts'.ht = FuzzIters
          /\ inserts'.rax = FuzzIters
    /\ (pc = "count" /\ pc' = "next") => inserts'.count = numele
    /\ Returns(0) => pc = "done" /\ numkeys = numele

C7_Phases == [][C7_Step]_vars

\* A run failed on an insertion on which the stores disagreed, after one on
\* which they agreed.
C7_Witness ==
    /\ pc = "ret"
    /\ verdicts[Len(verdicts)].ret = 1
    /\ inserts.rax = 2
    /\ inserts.agreed = 1

\* A run reached its Done check by way of all phases.
C7_WitnessDone ==
    pc = "done" /\ inserts.agreed = FuzzIters /\ inserts.count = numele

RECURSIVE SumOf(_, _)
SumOf(f, S) ==
    IF S = {} THEN 0
    ELSE LET x == CHOOSE y \in S : TRUE IN f[x] + SumOf(f, S \ {x})

C9_Step ==
    (pc = "next" /\ pc' \in {"next", "ret"}) =>
        LET y == lastYield'
            equal == y.val1 = y.val2 /\ y.val1 = y.expected
        IN  /\ y.val1 = Find(table, y.key)
            /\ y.expected = htHash(y.key, Len(y.key))
            /\ pc' = "next" => equal /\ numkeys' = numkeys + 1
            /\ ~equal => Returns(1)
            /\ ~Present(table, y.key) => y.val1 = htNotFound /\ Returns(1)

C9_Traverse == [][C9_Step]_vars

\* The index yielded a key that is not in the Oracle and found the expected
\* value for it; the run failed there.
C9_Witness ==
    /\ pc = "ret"
    /\ lastYield # <<>>
    /\ lastYield.val1 = htNotFound
    /\ lastYield.val2 = lastYield.expected
    /\ verdicts[Len(verdicts)].ret = 1

\* The modes of the runs so far.
ModesRun == [j \in 1..Len(verdicts) |-> verdicts[j].mode]

\* C10: with fuzzing enabled the three categories run in the order INT,
\* UNIQUE_ALPHA, RANDOM, whether or not one of them fails; the exit status
\* is the number of failed categories, and 0 when fuzzing is not enabled.
C10_ExitStatus ==
    /\ ModesRun = SubSeq(<<KEY_INT, KEY_UNIQUE_ALPHA, KEY_RANDOM>>, 1, Len(verdicts))
    /\ pc = "exit" =>
          /\ ExitStatus = Cardinality({ j \in 1..Len(verdicts) : verdicts[j].ret # 0 })
          /\ ExitStatus <= 3
          /\ flags.fuzz = 1 => Len(verdicts) = 3
          /\ flags.fuzz = 0 => Len(verdicts) = 0 /\ ExitStatus = 0

\* The first and the last category failed, the one between them passed.
C10_Witness ==
    /\ pc = "exit"
    /\ Len(verdicts) = 3
    /\ verdicts[1].ret = 1 /\ verdicts[2].ret = 0 /\ verdicts[3].ret = 1
    /\ ExitStatus = 2

\* The keylen bytes the key pointer of the node n leads to.
StoredKey(n) ==
    LET m == KeyBytes(n)
    IN  IF Len(m) >= n.keylen THEN SubSeq(m, 1, n.keylen) ELSE m

\* The keys stored in the table t: for each node its place, the length and
\* the bytes of its key.
StoredKeys(t) ==
    UNION { { <<b, j, t[b][j].keylen, StoredKey(t[b][j])>> : j \in 1..Len(t[b]) } :
              b \in DOMAIN t }

\* C14: the Oracle stores a copy of its own of each key inserted: once
\* insert(key, value) has returned, writing over the buffer of the caller,
\* as the loop of fuzzTest does when int2key() writes the next key into the
\* same key[], changes no stored key and not what a later find, insert or
\* remove returns: in every state of a run, whatever key[] holds, each key
\* inserted so far is stored with its bytes, is found with its value, would
\* be reported as present by insert and as removed by remove.
C14_OwnCopy ==
    \A k \in DOMAIN shadow :
        shadow[k] # htNotFound =>
            /\ <<Len(k), k>> \in { <<x[3], x[4]>> : x \in StoredKeys(table) }
            /\ htFind(table, wild, k, Len(k)) = shadow[k]
            /\ htAddRet(table, wild, k, Len(k)) = 0
            /\ htRemRet(table, wild, k, Len(k)) = 1

\* The third key of mode INT, "2", has been written into key[]; the keys
\* "0" and "1" inserted from the same buffer before are found.
C14_Witness ==
    /\ pc = "htAdd"
    /\ keymode = KEY_INT
    /\ ~dirty
    /\ SubSeq(key.buf, 1, key.len) = <<50>>
    /\ Find(table, <<48>>) = htHash(<<48>>, 1)
    /\ Find(table, <<49>>) = htHash(<<49>>, 1)
    /\ <<48>> \in { x[4] : x \in StoredKeys(table) }

\* C15: in mode INT the keys of the indices 0..N-1 are pairwise distinct,
\* and so are those of mode UNIQUE_ALPHA; therefore in these two modes each
\* of the N insertions into the Oracle reports "new" and the count of the
\* Oracle at CountCheck is N (N is FuzzIters here).
C15_AllNew ==
    keymode \in {KEY_INT, KEY_UNIQUE_ALPHA} =>
        /\ \A m \in 0..(FuzzIters - 1), n \in 0..(FuzzIters - 1) :
              m # n => int2key(KeyBufSize, U32(m), keymode).buf
                         # int2key(KeyBufSize, U32(n), keymode).buf
        /\ pc = "raxInsert" => retval1 = 1
        /\ pc = "count" => numele = FuzzIters

\* C15 in the runs whose table htNew returned with every head NULL.
C15_WhenZeroed == ~dirty => C15_AllNew

\* The places of a fuzz run.
RunPlaces == { "call", "gen", "htAdd", "raxInsert", "count", "next", "done" }

\* How many steps a run can still take at most, an iterator that reports
\* exhaustion after MaxYield keys at the latest being given.
Rank ==
    CASE pc = "call"      -> 3 * FuzzIters + MaxYield + 5
      [] pc = "gen"       -> 3 * (FuzzIters - i) + MaxYield + 4
      [] pc = "htAdd"     -> 3 * (FuzzIters - i) + MaxYield + 3
      [] pc = "raxInsert" -> 3 * (FuzzIters - i) + MaxYield + 2
      [] pc = "count"     -> MaxYield + 3
      [] pc = "next"      -> MaxYield - numkeys + 2
      [] pc = "done"      -> 1
      [] OTHER            -> 0

\* C17: every fuzz run terminates in Done or Failed, provided the iterator
\* of the index eventually reports exhaustion: a run never stops anywhere
\* else than at a return of fuzzTest, every step of it brings the return
\* nearer, and a run that reaches CountCheck has made exactly N insertions
\* into the Oracle and N into the index, in lock-step (N is FuzzIters here).
C17_Step ==
    pc \in RunPlaces => (pc' \in RunPlaces \union {"ret"} /\ Rank' < Rank)

C17_RunEnds == [][C17_Step]_vars

\* C17 with the steps on which the process dies on a pointer that htNew
\* left uninitialized let pass.
C17_EndsOrDies == [][~crashed' => C17_Step]_vars

\* The second half of C17: a run that reaches CountCheck has made exactly N
\* insertions into the Oracle and N into the index, in lock-step (N is
\* FuzzIters here).
C17_LockStep ==
    /\ pc \in {"gen", "htAdd"} => inserts.ht = i /\ inserts.rax = i
    /\ pc = "raxInsert" => inserts.ht = i + 1 /\ inserts.rax = i
    /\ pc \in {"raxInsert", "htAdd"} => val = htHash(key.buf, key.len)
    /\ pc = "count" => inserts.ht = FuzzIters /\ inserts.rax = FuzzIters

\* C19: a run of mode INT or UNIQUE_ALPHA gets keys that depend on the index
\* alone and an Oracle and an index of its own, so that two executions of
\* it against the same behaviour of the index give the same verdict.  The
\* behaviour taken here is the one of an index that reports every key
\* inserted as new, which the keys of these modes, all distinct, are: a run
\* with every head of the table NULL gets through its insertions with it,
\* so no run ends Failed in them.
C19_SameVerdict ==
    ~ /\ pc = "ret"
      /\ keymode \in {KEY_INT, KEY_UNIQUE_ALPHA}
      /\ inserts.count = -1
      /\ inserts.new = inserts.rax
      /\ verdicts[Len(verdicts)].ret = 1

\* The runs with every head of the table NULL: with this index they reach
\* CountCheck, all of them with N keys counted.
C19_WhenZeroed ==
    [][(~dirty /\ keymode \in {KEY_INT, KEY_UNIQUE_ALPHA}
          /\ inserts'.new = inserts'.rax /\ inserts'.count = -1) =>
            /\ ~Returns(1)
            /\ pc' = "count" => numele' = FuzzIters]_vars

\* The arguments of the command line a.
Named(a) == { a[j] : j \in 1..Len(a) }

Recognized == { "--bench", "--fuzz", "--units" }

\* 1 when the category is among the arguments N, else 0.
Enabled01(N, c) == IF c \in N THEN 1 ELSE 0

\* C11: with no argument units and fuzz are enabled and bench is not; with
\* arguments that are all among --bench, --fuzz and --units exactly the
\* categories named are enabled, whatever their order and however often
\* they are repeated; an argument that is not recognized, at any position,
\* leads to the usage message and a non-zero exit status before any fuzz
\* category has started.
C11_Step ==
    /\ (pc = "main" /\ pc' # pc) =>
          LET N == Named(argv)
          IN  /\ Len(argv) = 0 =>
                    /\ flags' = [bench |-> 0, units |-> 1, fuzz |-> 1]
                    /\ pc' = "call"
              /\ (Len(argv) > 0 /\ N \subseteq Recognized) =>
                    /\ flags' = [bench |-> Enabled01(N, "--bench"),
                                 units |-> Enabled01(N, "--units"),
                                 fuzz  |-> Enabled01(N, "--fuzz")]
                    /\ pc' = IF "--fuzz" \in N THEN "call" ELSE "exit"
              /\ ~(N \subseteq Recognized) =>
                    /\ pc' = "usage"
                    /\ ExitStatus' # 0
                    /\ verdicts' = <<>>
    /\ pc = "usage" => pc' = "usage" /\ verdicts' = <<>> /\ ExitStatus' # 0

C11_Categories == [][C11_Step]_vars

\* --bench and --fuzz were named, in one order or the other: the first fuzz
\* category is about to start with bench and fuzz enabled and units not.
C11_Witness ==
    /\ pc = "call"
    /\ keymode = KEY_INT
    /\ flags = [bench |-> 1, units |-> 0, fuzz |-> 1]

\* ------------------------------------------------------------------------
\* Claims about int2key() and htHash() (specification GenSpec)
\* ------------------------------------------------------------------------

\* The key a call returned: the first len bytes of the buffer.
KeyOf(g) == SubSeq(g.buf, 1, g.len)

\* The round that undoes FeistelRound: from <<l ^ F(r), r>> back to <<r, l>>.
FeistelRoundInv(rl) == <<rl[2], XorBits(rl[1], FeistelF(rl[2]), 16)>>

RECURSIVE FeistelRoundsInv(_, _)
FeistelRoundsInv(rl, n) ==
    IF n = 0 THEN rl
    ELSE LET rl2 == FeistelRoundInv(rl)
         IN  IF rl2[1] >= 0 THEN FeistelRoundsInv(rl2, n - 1) ELSE rl2

\* The digit of a byte of the alphabet of int2alphakey.
AlphaDigit(c) ==
    IF c >= 97 THEN c - 97 + 26 ELSE IF c >= 65 THEN c - 65 ELSE c - 48 + 52

\* The uint32_t whose base 62 digits, least significant first, are s.
RECURSIVE Decode62(_, _)
Decode62(s, j) ==
    IF j > Len(s) THEN <<0, 0>>
    ELSE LET x  == Decode62(s, j + 1)
             lo == x[2] * 62 + AlphaDigit(s[j])
         IN  <<x[1] * 62 + (lo \div W16), lo % W16>>

\* C12: with the buffer of 64 bytes, key generation in mode UNIQUE_ALPHA is
\* injective: int2int is a bijection of the 32 bit values (the eight rounds
\* can be undone, and it undoes the eight inverse rounds), the base 62
\* encoding of its result is not truncated (the key decodes to the result),
\* and two distinct indices give distinct keys.
C12_AlphaInjective ==
    (gen.pc # "int2key" /\ gen.mode = KEY_UNIQUE_ALPHA) =>
        LET y == int2int(gen.i)
        IN  /\ y[1] \in 0..(W16 - 1) /\ y[2] \in 0..(W16 - 1)
            /\ FeistelRoundsInv(y, 8) = gen.i
            /\ int2int(FeistelRoundsInv(gen.i, 8)) = gen.i
            /\ Decode62(KeyOf(gen.key), 1) = y
            /\ gen.key.len < KeyBufSize - 1
            /\ \A x \in Indices \ {gen.i} :
                  KeyOf(int2key(KeyBufSize, x, KEY_UNIQUE_ALPHA)) # KeyOf(gen.key)

\* The key of index 0 in mode UNIQUE_ALPHA is "cwSbmC": int2int(0) is
\* 36625 * 65536 + 17484, a value with the top bit set.
C12_Witness ==
    /\ gen.pc = "ret"
    /\ gen.mode = KEY_UNIQUE_ALPHA
    /\ gen.i = <<0, 0>>
    /\ int2int(gen.i) = <<36625, 17484>>
    /\ KeyOf(gen.key) = <<99, 119, 83, 98, 109, 67>>

\* The keys of mode INT are the decimal digits of the index, and two
\* distinct indices give distinct keys (the first half of C15).
C15_IntDistinct ==
    (gen.pc # "int2key" /\ gen.mode = KEY_INT) =>
        \A x \in Indices \ {gen.i} :
            KeyOf(int2key(KeyBufSize, x, KEY_INT)) # KeyOf(gen.key)

\* hash * 33 + c modulo 2^32 on the four bytes of a uint32_t, the least
\* significant one first.
RefMulAdd(h, c) ==
    LET t1 == h[1] * 33 + c
        t2 == h[2] * 33 + (t1 \div 256)
        t3 == h[3] * 33 + (t2 \div 256)
        t4 == h[4] * 33 + (t3 \div 256)
    IN  <<t1 % 256, t2 % 256, t3 % 256, t4 % 256>>

\* The bytes a..b of s taken into the djb2 value h, one after the other.
RECURSIVE RefFold(_, _, _, _)
RefFold(h, s, a, b) ==
    IF a > b THEN h
    ELSE IF a = b THEN RefMulAdd(h, s[a])
    ELSE LET m  == (a + b) \div 2
             h2 == RefFold(h, s, a, m)
         IN  IF h2[1] >= 0 THEN RefFold(h2, s, m + 1, b) ELSE h2

\* djb2 of the first n bytes of s: it starts at 5381 = 21 * 256 + 5.
RefDjb2(s, n) == RefFold(<<5, 21, 0, 0>>, s, 1, n)

\* The four bytes h as a number, modulo m.
RefMod(h, m) ==
    ((((((h[4] % m) * 256 + h[3]) % m) * 256 + h[2]) % m) * 256 + h[1]) % m

\* C16: the hash of a key is its djb2 value (5381, then hash * 33 + byte for
\* each byte in order, modulo 2^32) modulo the bucket count 100000, so for
\* every key, the empty one too, it is a bucket index in [0, 100000), and so
\* is the value fuzzTest computes for the key (line 222).
C16_HashIsDjb2 ==
    gen.pc = "ret" =>
        /\ gen.hash = RefMod(RefDjb2(gen.key.buf, gen.key.len), HT_TABLE_SIZE)
        /\ gen.hash \in 0..(HT_TABLE_SIZE - 1)
        /\ gen.key.len = 0 => gen.hash = 5381

\* The hash of the key "4294967295" of mode INT, whose djb2 value exceeds
\* 2^32 many times over, is 41438.
C16_Witness ==
    /\ gen.pc = "ret"
    /\ gen.mode = KEY_INT
    /\ gen.i = <<65535, 65535>>
    /\ gen.key.len = 10
    /\ gen.hash = 41438

\* C18: for every mode and index, with the buffer of 64 bytes, int2key
\* returns a length between 0 and 63 and writes inside the buffer only, the
\* terminator of int2alphakey included; in mode RANDOM the length is in
\* [0, maxlen) and exactly as many bytes are filled.
C18_KeyInBuffer ==
    gen.pc # "int2key" =>
        /\ gen.key.len \in 0..(KeyBufSize - 1)
        /\ Len(gen.key.buf) <= KeyBufSize
        /\ gen.key.len <= Len(gen.key.buf)
        /\ gen.mode = KEY_UNIQUE_ALPHA =>
              /\ Len(gen.key.buf) = gen.key.len + 1
              /\ gen.key.buf[gen.key.len + 1] = 0
        /\ gen.mode = KEY_RANDOM =>
              /\ gen.key.len = gen.rand[1] % KeyBufSize
              /\ Len(gen.key.buf) = gen.key.len
              /\ \A j \in 1..gen.key.len : gen.key.buf[j] \in 0..255

\* rand() returned 127 for the length: the key has the 63 bytes that
\* follow, and nothing else was written.
C18_Witness ==
    /\ gen.pc = "ret"
    /\ gen.mode = KEY_RANDOM
    /\ gen.rand[1] = 2 * KeyBufSize - 1
    /\ gen.key.len = KeyBufSize - 1
    /\ gen.key.buf = [j \in 1..(KeyBufSize - 1) |-> j]

====
